---- MODULE Spec2Model ----
(***************************************************************************)
(* Model of the audio capture core of Vision_Voice:                         *)
(*   src/src/utils/audio_recorder.py  (class AudioRecorder)                 *)
(*   src/main.py                      (process: the caller / consumer)      *)
(*                                                                         *)
(* Three threads of control are modelled, each with a program counter:     *)
(*   the caller (main.process), the calibration thread (_calibrate_noise)  *)
(*   and the listening thread (_listen_and_record / _save_recording).      *)
(* Wall-clock time (time.time()) is the integer variable now, advanced by  *)
(* Tick; time.sleep() is not a synchronisation primitive, so threads       *)
(* interleave freely.                                                      *)
(***************************************************************************)
EXTENDS Integers, Sequences, FiniteSets, TLC

\* ---------------------------------------------------------------- bounds
MaxTime    == 7      \* the clock stops advancing here
MaxBlocks  == 4      \* blocks the device delivers to the listening loop
MaxSamples == 2      \* calibration samples collected
MaxFiles   == 2      \* temporary files created by _save_recording
MaxStops   == 2      \* calls of stop() by the caller
MaxFaults  == 1      \* injected failures (device read / processing / file)

\* ------------------------------------------------------ program constants
InitialThreshold      == 6   \* threshold=... (constructor argument)
RecordingInterval     == 2   \* recording_interval=... (constructor argument)
CalibrationPeriod     == 3   \* self.calibration_period
SpeechFramesThreshold == 3   \* self.speech_frames_threshold
Scale                 == 10  \* fixed-point denominator of the float fields
Volumes               == {2, 8}   \* peak amplitudes a block can have

\* ------------------------------------------------------------------ state
VARIABLES
  now,                        \* time.time()
  \* --- AudioRecorder fields
  p,                          \* self.p       : "none" | "live" | "terminated"
  stream,                     \* self.stream  : "none" | "active" | "stopped" | "closed"
  running,                    \* self.running
  is_calibrated,              \* self.is_calibrated
  threshold,                  \* self.threshold   (in 1/Scale units)
  noise_floor,                \* self.noise_floor (in 1/Scale units)
  noise_calibration_samples,  \* self.noise_calibration_samples
  last_recording_time,        \* self.last_recording_time
  consecutive_speech_frames,  \* self.consecutive_speech_frames
  audio_queue,                \* self.audio_queue (queue.Queue, FIFO)
  \* --- caller (main.process)
  callerPc, startFailedAt, startRaised, stopCalls, stopReturns, stopRaised,
  dequeued,                   \* handles the caller got from audio_queue
  \* --- calibration thread
  calPc, start_time,
  \* --- listening thread
  listenPc, temp_frames, current_time, temp_file,
  \* --- environment: device and file system
  terminateCalls,             \* calls of p.terminate()
  closeCalls,                 \* calls of stream.close()
  nextBlock,                  \* identity of the next block the device delivers
  files,                      \* handle -> [content, closed]
  fileCount, faults,
  \* --- history
  deviceLog,                  \* blocks read by the listening loop, in order
  intervalStartIdx,           \* Len(deviceLog) when the interval timer was set
  putLog,                     \* one record per audio_queue.put
  \* --- observation
  runLength,                  \* length of the current run of loud blocks
  speechReported,             \* "Speech detected" printed for the last block
  runReports,                 \* "Speech detected" prints in the current run
  startedAt                   \* time.time() when start_listening was called

vars == << now, p, stream, running, is_calibrated, threshold, noise_floor,
           noise_calibration_samples, last_recording_time,
           consecutive_speech_frames, audio_queue,
           callerPc, startFailedAt, startRaised, stopCalls, stopReturns,
           stopRaised, dequeued, calPc, start_time,
           listenPc, temp_frames, current_time, temp_file,
           terminateCalls, closeCalls, nextBlock, files, fileCount, faults,
           deviceLog, intervalStartIdx, putLog,
           runLength, speechReported, runReports, startedAt >>

recorderVars == << p, stream, running, is_calibrated, threshold, noise_floor,
                   noise_calibration_samples, last_recording_time,
                   consecutive_speech_frames, audio_queue >>
callerVars   == << callerPc, startFailedAt, startRaised, stopCalls,
                   stopReturns, stopRaised, dequeued >>
calVars      == << calPc, start_time >>
listenVars   == << listenPc, temp_frames, current_time, temp_file >>
envVars      == << terminateCalls, closeCalls, nextBlock, files, fileCount,
                   faults >>
histVars     == << deviceLog, intervalStartIdx, putLog >>
obsVars      == << runLength, speechReported, runReports, startedAt >>

Range(s) == {s[i] : i \in 1..Len(s)}

Max(a, b) == IF a >= b THEN a ELSE b

\* ------------------------------------------------------------------ Init
\* AudioRecorder.__init__ ; nothing started yet.
Init ==
  /\ now = 0
  /\ p = "none" /\ stream = "none"
  /\ running = TRUE
  /\ is_calibrated = FALSE
  /\ threshold = InitialThreshold * Scale
  /\ noise_floor = 0
  /\ noise_calibration_samples = << >>
  /\ last_recording_time = 0
  /\ consecutive_speech_frames = 0
  /\ audio_queue = << >>
  /\ callerPc = "created" /\ startFailedAt = "none" /\ startRaised = FALSE
  /\ stopCalls = 0 /\ stopReturns = 0 /\ stopRaised = FALSE
  /\ dequeued = << >>
  /\ calPc = "idle" /\ start_time = 0
  /\ listenPc = "idle" /\ temp_frames = << >> /\ current_time = 0
  /\ temp_file = 0
  /\ terminateCalls = 0 /\ closeCalls = 0
  /\ nextBlock = 1 /\ files = << >> /\ fileCount = 0 /\ faults = 0
  /\ deviceLog = << >> /\ intervalStartIdx = 0 /\ putLog = << >>
  /\ runLength = 0 /\ speechReported = FALSE /\ runReports = 0
  /\ startedAt = 0

\* time.time() advances; the clock is read relative to the moment main.process
\* constructs the recorder and calls start_listening() (main.py:124-125).
Tick ==
  /\ callerPc # "created"
  /\ now < MaxTime
  /\ now' = now + 1
  /\ UNCHANGED << recorderVars, callerVars, calVars, listenVars, envVars,
                  histVars,
                  obsVars >>

\* ------------------------------------------------------- caller: start
\* The steps of start_listening() at which the device can fail.
StartSteps == {"pyaudio", "devinfo", "open", "start_stream"}

\* AudioRecorder.start_listening().  It runs before any thread exists, so it
\* is one step.  failAt names the call that raises ("none": all succeed).
\* The except clause prints, terminates self.p if it was created, and the
\* method returns normally: nothing is raised to the caller.
\* PyAudio.terminate() closes the streams of the instance that are open.
start_listening(failAt) ==
  /\ callerPc = "created"
  /\ startFailedAt' = failAt
  /\ startedAt' = now
  /\ startRaised' = FALSE
  /\ callerPc' = "waitcal"
  /\ CASE failAt = "pyaudio" ->
            UNCHANGED << p, stream, terminateCalls, closeCalls, calPc >>
       [] failAt \in {"devinfo", "open"} ->
            /\ p' = "terminated"
            /\ terminateCalls' = terminateCalls + 1
            /\ UNCHANGED << stream, closeCalls, calPc >>
       [] failAt = "start_stream" ->
            /\ p' = "terminated"
            /\ terminateCalls' = terminateCalls + 1
            /\ stream' = "closed"
            /\ closeCalls' = closeCalls + 1
            /\ UNCHANGED calPc
       [] OTHER ->
            /\ p' = "live"
            /\ stream' = "active"
            /\ calPc' = "begin"
            /\ UNCHANGED << terminateCalls, closeCalls >>
  /\ UNCHANGED << now, running, is_calibrated, threshold, noise_floor,
                  noise_calibration_samples, last_recording_time,
                  consecutive_speech_frames, audio_queue,
                  stopCalls, stopReturns, stopRaised, dequeued, start_time,
                  listenVars, nextBlock, files, fileCount, faults, histVars,
                  runLength, speechReported, runReports >>

StartListening == \E failAt \in StartSteps \cup {"none"} : start_listening(failAt)

\* main.process: while not recorder.is_calibrated: ... time.sleep(0.1)
CallerReady ==
  /\ callerPc = "waitcal"
  /\ is_calibrated
  /\ callerPc' = "loop"
  /\ UNCHANGED << now, recorderVars, startFailedAt, startRaised, stopCalls,
                  stopReturns, stopRaised, dequeued, calVars, listenVars,
                  envVars, histVars, obsVars >>

\* main.process: if not audio_queue.empty(): audio_file = audio_queue.get();
\* ... transcribe ...; os.unlink(audio_file)
CallerGet ==
  /\ callerPc = "loop"
  /\ audio_queue # << >>
  /\ dequeued' = Append(dequeued, Head(audio_queue))
  /\ audio_queue' = Tail(audio_queue)
  /\ files' = [files EXCEPT ![Head(audio_queue)].state = "deleted"]
  /\ UNCHANGED << now, p, stream, running, is_calibrated, threshold,
                  noise_floor, noise_calibration_samples, last_recording_time,
                  consecutive_speech_frames, callerPc, startFailedAt,
                  startRaised, stopCalls, stopReturns, stopRaised, calVars,
                  listenVars, terminateCalls, closeCalls, nextBlock,
                  fileCount, faults, histVars,
                  obsVars >>

\* -------------------------------------------------------- caller: stop
\* stop(), first part: self.running = False; time.sleep(0.2).
\* The caller reaches it from the calibration wait (exception -> finally),
\* from the main loop (quit -> finally), or once more after stop() returned.
StopBegin ==
  /\ callerPc \in {"waitcal", "loop", "returned"}
  /\ stopCalls < MaxStops
  /\ stopCalls' = stopCalls + 1
  /\ running' = FALSE
  /\ callerPc' = "stop_stream"
  /\ UNCHANGED << now, p, stream, is_calibrated, threshold, noise_floor,
                  noise_calibration_samples, last_recording_time,
                  consecutive_speech_frames, audio_queue, startFailedAt,
                  startRaised, stopReturns, stopRaised, dequeued, calVars,
                  listenVars, envVars, histVars,
                  obsVars >>

\* stop(), second part: if self.stream: stream.stop_stream() ..., inside
\* try/except Exception.  stop_stream() on a closed stream raises; the
\* exception is printed and close() is skipped.
StopStream ==
  /\ callerPc = "stop_stream"
  /\ CASE stream = "active" -> stream' = "stopped" /\ callerPc' = "stop_close"
       [] stream = "closed" -> UNCHANGED stream /\ callerPc' = "stop_term"
       [] OTHER             -> UNCHANGED stream /\ callerPc' = "stop_term"
  /\ UNCHANGED << now, p, running, is_calibrated, threshold, noise_floor,
                  noise_calibration_samples, last_recording_time,
                  consecutive_speech_frames, audio_queue, startFailedAt,
                  startRaised, stopCalls, stopReturns, stopRaised, dequeued,
                  calVars, listenVars, envVars, histVars,
                  obsVars >>

\* stop(): ... stream.close()
StopCloseStream ==
  /\ callerPc = "stop_close"
  /\ callerPc' = "stop_term"
  /\ stream' = "closed"
  /\ closeCalls' = closeCalls + 1
  /\ UNCHANGED << now, p, running, is_calibrated, threshold, noise_floor,
                  noise_calibration_samples, last_recording_time,
                  consecutive_speech_frames, audio_queue, startFailedAt,
                  startRaised, stopCalls, stopReturns, stopRaised, dequeued,
                  calVars, listenVars, terminateCalls, nextBlock, files,
                  fileCount, faults, histVars,
                  obsVars >>

\* stop(), third part: if self.p: self.p.terminate() inside try/except; then
\* stop() returns.  self.p is never reset, so every stop() terminates it.
StopTerminate ==
  /\ callerPc = "stop_term"
  /\ callerPc' = "returned"
  /\ stopReturns' = stopReturns + 1
  /\ IF p # "none"
       THEN p' = "terminated" /\ terminateCalls' = terminateCalls + 1
       ELSE UNCHANGED << p, terminateCalls >>
  /\ UNCHANGED << now, stream, running, is_calibrated, threshold, noise_floor,
                  noise_calibration_samples, last_recording_time,
                  consecutive_speech_frames, audio_queue, startFailedAt,
                  startRaised, stopCalls, stopRaised, dequeued, calVars,
                  listenVars, closeCalls, nextBlock, files, fileCount, faults,
                  histVars,
                  obsVars >>

\* -------------------------------------------------- calibration thread
RECURSIVE SumSeq(_)
SumSeq(s) == IF s = << >> THEN 0 ELSE Head(s) + SumSeq(Tail(s))

RECURSIVE SumSq(_)
SumSq(s) == IF s = << >> THEN 0 ELSE Head(s) * Head(s) + SumSq(Tail(s))


\* integer square root (floor)
ISqrt(n) == CHOOSE r \in 0..n : r * r <= n /\ (r + 1) * (r + 1) > n

\* np.mean(samples) + 2 * np.std(samples), in 1/Scale units.
\* With N samples of sum S and sum of squares Q the population standard
\* deviation is sqrt(N*Q - S*S) / N.
NoiseFloorOf(samples) ==
  LET N == Len(samples)
      S == SumSeq(samples)
      Q == SumSq(samples)
  IN  (Scale * S + 2 * ISqrt(Scale * Scale * (N * Q - S * S))) \div N

\* the threshold taken from the noise floor alone
AdjustedThresholdNoMax(thr, nf) == (nf * 3) \div 2

\* max(self.threshold, self.noise_floor * 1.5), in 1/Scale units
AdjustedThreshold(thr, nf) == Max(thr, (nf * 3) \div 2)

\* _calibrate_noise: start_time = time.time()
CalBegin ==
  /\ calPc = "begin"
  /\ start_time' = now
  /\ calPc' = "loop"
  /\ UNCHANGED << now, recorderVars, callerVars, listenVars, envVars,
                  histVars,
                  obsVars >>

\* One iteration of the calibration while loop.  The loop does not look at
\* self.running.  With the stream open the read either returns a block whose
\* peak amplitude is appended, or raises; on a stream that stop() has closed
\* is_active() raises; every exception is printed and the loop goes on.
CalIterate ==
  /\ calPc = "loop"
  /\ now - start_time < CalibrationPeriod
  /\ \/ /\ stream = "active"
        /\ Len(noise_calibration_samples) < MaxSamples
        /\ \E v \in Volumes :
             noise_calibration_samples' = Append(noise_calibration_samples, v)
        /\ UNCHANGED faults
     \/ /\ stream = "active"
        /\ faults < MaxFaults
        /\ faults' = faults + 1
        /\ UNCHANGED noise_calibration_samples
     \/ /\ stream = "closed"
        /\ UNCHANGED << noise_calibration_samples, faults >>
  /\ UNCHANGED << now, p, stream, running, is_calibrated, threshold,
                  noise_floor, last_recording_time, consecutive_speech_frames,
                  audio_queue, callerVars, calVars, listenVars,
                  terminateCalls, closeCalls, nextBlock, files, fileCount,
                  histVars, runLength, speechReported, runReports,
                  startedAt >>

\* CalExit with the readiness flag raised on leaving the loop, before the
\* noise floor and the threshold are computed.
CalExitFlagEarly ==
  /\ calPc = "loop"
  /\ now - start_time >= CalibrationPeriod
  /\ calPc' = "compute"
  /\ is_calibrated' = TRUE
  /\ UNCHANGED << now, p, stream, running, threshold, noise_floor,
                  noise_calibration_samples, last_recording_time,
                  consecutive_speech_frames, audio_queue, callerVars,
                  start_time, listenVars, envVars, histVars,
                  obsVars >>

\* CalExit that leaves the loop without waiting for the calibration period
CalExitAtOnce ==
  /\ calPc = "loop"
  /\ calPc' = "compute"
  /\ UNCHANGED << now, recorderVars, callerVars, start_time, listenVars,
                  envVars, histVars, obsVars >>

\* The calibration period is over: leave the while loop.
CalExit ==
  /\ calPc = "loop"
  /\ now - start_time >= CalibrationPeriod
  /\ calPc' = "compute"
  /\ UNCHANGED << now, recorderVars, callerVars, start_time, listenVars,
                  envVars, histVars,
                  obsVars >>

\* CalCompute without the "if self.noise_calibration_samples" guard: the
\* statistics of an empty list end the thread.
CalComputeUnguarded ==
  /\ calPc = "compute"
  /\ IF noise_calibration_samples # << >>
       THEN /\ calPc' = "flag"
            /\ noise_floor' = NoiseFloorOf(noise_calibration_samples)
            /\ threshold' = AdjustedThreshold(threshold,
                              NoiseFloorOf(noise_calibration_samples))
       ELSE /\ calPc' = "crashed"
            /\ UNCHANGED << noise_floor, threshold >>
  /\ UNCHANGED << now, p, stream, running, is_calibrated,
                  noise_calibration_samples, last_recording_time,
                  consecutive_speech_frames, audio_queue, callerVars,
                  start_time, listenVars, envVars, histVars, obsVars >>

\* noise floor and threshold from the samples, when there are any
CalCompute ==
  /\ calPc = "compute"
  /\ calPc' = "flag"
  /\ IF noise_calibration_samples # << >>
       THEN /\ noise_floor' = NoiseFloorOf(noise_calibration_samples)
            /\ threshold' = AdjustedThreshold(threshold,
                              NoiseFloorOf(noise_calibration_samples))
       ELSE UNCHANGED << noise_floor, threshold >>
  /\ UNCHANGED << now, p, stream, running, is_calibrated,
                  noise_calibration_samples, last_recording_time,
                  consecutive_speech_frames, audio_queue, callerVars,
                  start_time, listenVars, envVars, histVars,
                  obsVars >>

\* self.is_calibrated = True
CalSetFlag ==
  /\ calPc = "flag"
  /\ calPc' = "spawn"
  /\ is_calibrated' = TRUE
  /\ UNCHANGED << now, p, stream, running, threshold, noise_floor,
                  noise_calibration_samples, last_recording_time,
                  consecutive_speech_frames, audio_queue, callerVars,
                  start_time, listenVars, envVars, histVars,
                  obsVars >>

\* the listening thread created from inside the calibration read loop
CalSpawnInLoop ==
  /\ calPc = "loop"
  /\ listenPc = "idle"
  /\ listenPc' = "wait"
  /\ UNCHANGED << now, recorderVars, callerVars, calVars, temp_frames,
                  current_time, temp_file, envVars, histVars,
                  obsVars >>

\* self.listening_thread = Thread(target=self._listen_and_record); start()
\* _calibrate_noise returns and its local start_time is gone.
CalSpawn ==
  /\ calPc = "spawn"
  /\ calPc' = "done"
  /\ start_time' = 0
  /\ listenPc' = "wait"
  /\ UNCHANGED << now, recorderVars, callerVars, temp_frames,
                  current_time, temp_file, envVars, histVars,
                  obsVars >>

\* ---------------------------------------------------- listening thread
\* _listen_and_record, up to the while loop: wait for is_calibrated, then
\* last_recording_time = time.time(); temp_frames = []
ListenBegin ==
  /\ listenPc = "wait"
  /\ is_calibrated
  /\ last_recording_time' = now
  /\ temp_frames' = << >>
  /\ intervalStartIdx' = Len(deviceLog)
  /\ listenPc' = "top"
  /\ UNCHANGED << now, p, stream, running, is_calibrated, threshold,
                  noise_floor, noise_calibration_samples,
                  consecutive_speech_frames, audio_queue, callerVars, calVars,
                  current_time, temp_file, envVars, deviceLog, putLog,
                  obsVars >>

\* should_flush: current_time - self.last_recording_time >= interval
AtBoundary(t, last) == t - last >= RecordingInterval

\* ListenTop without the "if len(temp_frames) > 0" test
ListenTopSaveAlways ==
  /\ listenPc = "top"
  /\ IF ~running
       THEN /\ listenPc' = "done"
            /\ temp_frames' = << >> /\ current_time' = 0
       ELSE /\ current_time' = now
            /\ listenPc' = IF AtBoundary(now, last_recording_time)
                             THEN "save_create" ELSE "read"
            /\ UNCHANGED temp_frames
  /\ UNCHANGED << now, recorderVars, callerVars, calVars,
                  temp_file, envVars, histVars,
                  obsVars >>

\* Top of an iteration: while self.running: current_time = time.time();
\* at an interval boundary go to _save_recording when blocks are buffered,
\* straight to the reset otherwise; else go on to the device read.  With
\* running false _listen_and_record returns and its locals temp_frames and
\* current_time are gone.
ListenTop ==
  /\ listenPc = "top"
  /\ IF ~running
       THEN /\ listenPc' = "done"
            /\ temp_frames' = << >> /\ current_time' = 0
       ELSE /\ current_time' = now
            /\ listenPc' = IF AtBoundary(now, last_recording_time)
                             THEN IF Len(temp_frames) > 0
                                    THEN "save_create" ELSE "reset"
                             ELSE "read"
            /\ UNCHANGED temp_frames
  /\ UNCHANGED << now, recorderVars, callerVars, calVars,
                  temp_file, envVars, histVars,
                  obsVars >>

\* _save_recording: temp_file = tempfile.NamedTemporaryFile(delete=False).
\* When it raises, the except clause of _save_recording evaluates
\* temp_file.name with temp_file unbound: that UnboundLocalError leaves
\* _save_recording and is caught by "except Exception" of the loop, which
\* sleeps 0.5 s; the reset of the interval is skipped.
SaveCreate ==
  /\ listenPc = "save_create"
  /\ \/ /\ fileCount < MaxFiles
        /\ fileCount' = fileCount + 1
        /\ temp_file' = fileCount + 1
        /\ files' = Append(files, [content |-> << >>, state |-> "open"])
        /\ listenPc' = "save_write"
        /\ UNCHANGED faults
     \/ /\ faults < MaxFaults
        /\ faults' = faults + 1
        /\ listenPc' = "backoff"
        /\ UNCHANGED << fileCount, temp_file, files >>
  /\ UNCHANGED << now, recorderVars, callerVars, calVars, temp_frames,
                  current_time, terminateCalls, closeCalls, nextBlock,
                  deviceLog, intervalStartIdx, putLog,
                  obsVars >>

\* the files when the except clause leaves the partly written file in place
UnlinkTempFileSkipped(fs, h) == fs

\* except Exception: if os.path.exists(temp_file.name): os.unlink(...)
UnlinkTempFile(fs, h) == [fs EXCEPT ![h].state = "deleted"]

\* _save_recording: wave.open, header, writeframes(b''.join(frames)), close.
\* When one of them raises, the except clause unlinks the temporary file and
\* _save_recording returns normally.
SaveWrite ==
  /\ listenPc = "save_write"
  /\ \/ /\ files' = [files EXCEPT ![temp_file] =
                       [content |-> temp_frames, state |-> "closed"]]
        /\ listenPc' = "save_put"
        /\ UNCHANGED << faults, temp_file >>
     \/ /\ faults < MaxFaults
        /\ faults' = faults + 1
        /\ files' = UnlinkTempFile(files, temp_file)
        /\ temp_file' = 0
        /\ listenPc' = "reset"
  /\ UNCHANGED << now, recorderVars, callerVars, calVars, temp_frames,
                  current_time, terminateCalls, closeCalls, nextBlock,
                  fileCount, deviceLog, intervalStartIdx, putLog,
                  obsVars >>

\* a last-in, first-out put
QueuePutFront(q, h) == << h >> \o q

\* queue.Queue.put: first in, first out
QueuePut(q, h) == Append(q, h)

\* _save_recording: self.audio_queue.put(temp_file.name); return
SavePut ==
  /\ listenPc = "save_put"
  /\ audio_queue' = QueuePut(audio_queue, temp_file)
  /\ putLog' = Append(putLog, [handle    |-> temp_file,
                               flushTime |-> current_time,
                               queueLen  |-> Len(audio_queue),
                               first     |-> intervalStartIdx,
                               last      |-> Len(deviceLog),
                               afterStop |-> stopReturns > 0])
  /\ temp_file' = 0
  /\ listenPc' = "reset"
  /\ UNCHANGED << now, p, stream, running, is_calibrated, threshold,
                  noise_floor, noise_calibration_samples, last_recording_time,
                  consecutive_speech_frames, callerVars, calVars, temp_frames,
                  current_time, envVars, deviceLog, intervalStartIdx,
                  obsVars >>

\* ListenReset that keeps the buffered blocks
ListenResetKeepFrames ==
  /\ listenPc = "reset"
  /\ temp_frames' = temp_frames
  /\ last_recording_time' = current_time
  /\ intervalStartIdx' = Len(deviceLog)
  /\ listenPc' = "read"
  /\ UNCHANGED << now, p, stream, running, is_calibrated, threshold,
                  noise_floor, noise_calibration_samples,
                  consecutive_speech_frames, audio_queue, callerVars, calVars,
                  current_time, temp_file, envVars, deviceLog, putLog,
                  obsVars >>

\* Reset for next interval: temp_frames = [];
\* self.last_recording_time = current_time
ListenReset ==
  /\ listenPc = "reset"
  /\ temp_frames' = << >>
  /\ last_recording_time' = current_time
  /\ intervalStartIdx' = Len(deviceLog)
  /\ listenPc' = "read"
  /\ UNCHANGED << now, p, stream, running, is_calibrated, threshold,
                  noise_floor, noise_calibration_samples,
                  consecutive_speech_frames, audio_queue, callerVars, calVars,
                  current_time, temp_file, envVars, deviceLog, putLog,
                  obsVars >>

\* the speech counter after a block of filtered peak amplitude v
SpeechCount(count, v, thr) == IF v * Scale > thr THEN count + 1 ELSE 0

\* a report on every block from the threshold-th of a run on
SpeechDetectedAtLeast(count) == count >= SpeechFramesThreshold

\* if self.consecutive_speech_frames == self.speech_frames_threshold:
\* print("Speech detected ...")
SpeechDetected(count) == count = SpeechFramesThreshold

\* a read handler that throws the buffered blocks away
AfterReadErrorCleared(frames) == << >>

\* The buffer after the read handler for a failed read.
AfterReadError(frames) == frames

\* Continuously read audio: if self.stream and self.stream.is_active():
\* data = stream.read(...); temp_frames.append(data); filter; speech count;
\* then time.sleep(0.01).  stream.read raises IOError (sleep 0.1) or the
\* processing of the block raises (sleep 0.5); is_active() raises on a
\* closed stream; a stopped stream is skipped.
ListenRead ==
  /\ listenPc = "read"
  /\ \/ /\ stream = "active"
        /\ nextBlock <= MaxBlocks
        /\ temp_frames' = Append(temp_frames, nextBlock)
        /\ deviceLog' = Append(deviceLog, nextBlock)
        /\ nextBlock' = nextBlock + 1
        /\ \/ /\ \E v \in Volumes :
                   /\ consecutive_speech_frames' =
                        SpeechCount(consecutive_speech_frames, v, threshold)
                   /\ speechReported' =
                        ( /\ v * Scale > threshold
                          /\ SpeechDetected(
                               SpeechCount(consecutive_speech_frames, v,
                                           threshold)) )
                   /\ runLength' = IF v * Scale > threshold
                                     THEN runLength + 1 ELSE 0
                   /\ runReports' =
                        IF v * Scale > threshold
                          THEN IF SpeechDetected(
                                    SpeechCount(consecutive_speech_frames, v,
                                                threshold))
                                 THEN runReports + 1 ELSE runReports
                          ELSE 0
              /\ listenPc' = "top"
              /\ UNCHANGED faults
           \/ /\ faults < MaxFaults
              /\ faults' = faults + 1
              /\ listenPc' = "backoff"
              /\ UNCHANGED << consecutive_speech_frames, speechReported,
                              runLength, runReports >>
     \/ /\ stream = "active"
        /\ faults < MaxFaults
        /\ faults' = faults + 1
        /\ temp_frames' = AfterReadError(temp_frames)
        /\ listenPc' = "backoff"
        /\ UNCHANGED << deviceLog, nextBlock, consecutive_speech_frames,
                        speechReported, runLength, runReports >>
     \/ /\ stream = "closed"
        /\ temp_frames' = AfterReadError(temp_frames)
        /\ listenPc' = "backoff"
        /\ UNCHANGED << deviceLog, nextBlock, consecutive_speech_frames,
                        faults, speechReported, runLength, runReports >>
     \/ /\ stream = "stopped"
        /\ listenPc' = "top"
        /\ UNCHANGED << temp_frames, deviceLog, nextBlock,
                        consecutive_speech_frames, faults, speechReported,
                        runLength, runReports >>
  /\ UNCHANGED << now, p, stream, running, is_calibrated, threshold,
                  noise_floor, noise_calibration_samples, last_recording_time,
                  audio_queue, callerVars, calVars, current_time, temp_file,
                  terminateCalls, closeCalls, files, fileCount,
                  intervalStartIdx, putLog,
                  startedAt >>

\* except IOError / except Exception: print; time.sleep; next iteration
ListenBackoff ==
  /\ listenPc = "backoff"
  /\ listenPc' = "top"
  /\ UNCHANGED << now, recorderVars, callerVars, calVars, temp_frames,
                  current_time, temp_file, envVars, histVars,
                  obsVars >>

Next == Tick \/ StartListening \/ CallerReady \/ CallerGet \/ StopBegin
          \/ StopStream \/ StopCloseStream \/ StopTerminate
          \/ CalBegin \/ CalIterate \/ CalExit \/ CalCompute \/ CalSetFlag
          \/ CalSpawn
          \/ ListenBegin \/ ListenTop \/ SaveCreate \/ SaveWrite \/ SavePut
          \/ ListenReset \/ ListenRead \/ ListenBackoff

Spec == Init /\ [][Next]_vars

\* The steps of the three threads.  Each thread that can take a step
\* eventually does (the interpreter schedules every runnable thread); the
\* clock advances.  Nothing obliges the caller to call stop() or to quit.
CalThread == CalBegin \/ CalIterate \/ CalExit \/ CalCompute \/ CalSetFlag
               \/ CalSpawn

ListenThread == ListenBegin \/ ListenTop \/ SaveCreate \/ SaveWrite \/ SavePut
                  \/ ListenReset \/ ListenRead \/ ListenBackoff

CallerThread == StartListening \/ CallerReady \/ StopStream
                  \/ StopCloseStream \/ StopTerminate

FairSpec ==
  /\ Spec
  /\ WF_vars(Tick)
  /\ WF_vars(CalThread)
  /\ WF_vars(ListenThread)
  /\ WF_vars(CallerThread)

\* ======================================================== properties

\* C1: once stop() has returned, no further segment handle is put on
\* audio_queue, whatever the listening thread was doing when stop() was
\* called.
C1_NoPutAfterStopReturned ==
  \A i \in 1..Len(putLog) : ~putLog[i].afterStop

\* C2: after a successful start_listening(), any number of stop() calls does
\* not raise, closes the stream exactly once and terminates the PyAudio
\* instance exactly once.
C2_StopTwiceReleasesOnce ==
  (startFailedAt = "none" /\ callerPc = "returned")
    => (~stopRaised /\ closeCalls = 1 /\ terminateCalls = 1)

\* the noise profile the collected samples determine
FinalNoiseFloor ==
  IF noise_calibration_samples = << >> THEN 0
  ELSE NoiseFloorOf(noise_calibration_samples)

FinalThreshold ==
  AdjustedThreshold(InitialThreshold * Scale,
                    IF noise_calibration_samples = << >> THEN 0
                    ELSE (Scale * SumSeq(noise_calibration_samples)
                          + 2 * ISqrt(Scale * Scale
                                * (Len(noise_calibration_samples)
                                     * SumSq(noise_calibration_samples)
                                   - SumSeq(noise_calibration_samples)
                                     * SumSeq(noise_calibration_samples))))
                         \div Len(noise_calibration_samples))

\* C3 in a state: the flag is up only once the profile has been computed, and
\* the listening thread exists, and reads the device, only after
\* _calibrate_noise has finished.
C3_Inv ==
  /\ is_calibrated => calPc \in {"spawn", "done"}
  /\ listenPc # "idle" => (is_calibrated /\ calPc = "done")
  /\ deviceLog # << >> => (is_calibrated /\ calPc = "done")

\* C3 in a step: the step that raises the flag finds the profile the samples
\* determine, and no later step changes the profile or the samples.
C3_Step ==
  /\ (~is_calibrated /\ is_calibrated')
       => /\ noise_floor' = FinalNoiseFloor'
          /\ threshold' = FinalThreshold'
  /\ is_calibrated
       => /\ noise_floor' = noise_floor
          /\ threshold' = threshold
          /\ noise_calibration_samples' = noise_calibration_samples

\* C3: noise_floor and threshold have their final values before
\* is_calibrated becomes true; is_calibrated is true before the listening
\* thread exists; the listening loop reads the device only after
\* _calibrate_noise has finished.
C3_ListenAfterCalibration == [](C3_Inv) /\ [][C3_Step]_vars

\* C3 witness: the listening loop has read a block after a calibration that
\* raised the threshold.
C3_Witness ==
  /\ deviceLog # << >>
  /\ noise_calibration_samples # << >>
  /\ threshold > InitialThreshold * Scale

\* C4: when opening the device fails inside start_listening(), the failure
\* is raised to the caller of start_listening().
C4_OpenFailurePropagated ==
  (callerPc # "created" /\ startFailedAt # "none") => startRaised

\* C5: after start_listening() failed partway, stop() completes without
\* raising and every acquired resource has been released exactly once over
\* start_listening()'s own cleanup and stop().
C5_StopAfterPartialStart ==
  (startFailedAt # "none" /\ stopReturns >= 1)
    => /\ ~stopRaised
       /\ terminateCalls = (IF p = "none" THEN 0 ELSE 1)
       /\ closeCalls = (IF stream = "none" THEN 0 ELSE 1)
       /\ p # "live"
       /\ stream \notin {"active", "stopped"}

\* the blocks read since the interval timer was last set
IntervalBlocks == SubSeq(deviceLog, intervalStartIdx + 1, Len(deviceLog))

\* what holds in every state of a flush
C6_Inv ==
  /\ listenPc \in {"save_create", "save_write", "save_put"}
       => (temp_frames # << >> /\ temp_frames = IntervalBlocks)
  /\ listenPc = "save_put"
       => files[temp_file] = [content |-> IntervalBlocks, state |-> "closed"]
  /\ \A i \in 1..Len(putLog) :
       /\ files[putLog[i].handle].content
            = SubSeq(deviceLog, putLog[i].first + 1, putLog[i].last)
       /\ putLog[i].first < putLog[i].last
       /\ \A j \in 1..Len(putLog) :
            i < j => /\ putLog[i].handle # putLog[j].handle
                     /\ putLog[i].last <= putLog[j].first
                     /\ putLog[i].flushTime + RecordingInterval
                          <= putLog[j].flushTime
  /\ \A i \in 1..Len(deviceLog) : deviceLog[i] = i

\* what a step of a flush does
C6_Step ==
  /\ (listenPc = "save_write" /\ listenPc' # "save_write" /\ faults' = faults)
       => listenPc' = "save_put"
  /\ (listenPc = "save_put" /\ listenPc' # "save_put")
       => /\ audio_queue' = Append(audio_queue, temp_file)
          /\ Len(putLog') = Len(putLog) + 1
          /\ listenPc' = "reset"
  /\ audio_queue' # audio_queue
       => \/ listenPc = "save_put" /\ listenPc' = "reset"
          \/ audio_queue' = Tail(audio_queue)

\* C6: each time the loop reaches an interval boundary with at least one
\* buffered block and the write succeeds, exactly one handle is enqueued, and
\* its segment holds exactly the blocks read since the interval began, in
\* read order, none missing and none repeated.
C6_OneSegmentPerBoundary == [](C6_Inv) /\ [][C6_Step]_vars

\* C6 witness: two segments have been enqueued, the first of two blocks.
C6_Witness ==
  /\ Len(putLog) = 2
  /\ files[putLog[1].handle].content = << 1, 2 >>
  /\ files[putLog[2].handle].content = << 3 >>

\* C7 in a state: no enqueued segment is empty and _save_recording never
\* runs on an empty buffer.
C7_Inv ==
  /\ \A i \in 1..Len(putLog) : files[putLog[i].handle].content # << >>
  /\ \A h \in 1..fileCount : files[h].state = "closed" => files[h].content # << >>
  /\ listenPc \in {"save_create", "save_write", "save_put"} => temp_frames # << >>

\* C7 in a step: a boundary reached with an empty buffer goes to the reset
\* without touching the queue or the files, and the reset sets the timer.
C7_Step ==
  /\ ( /\ listenPc = "top" /\ listenPc' # "top" /\ running
       /\ AtBoundary(now, last_recording_time) /\ temp_frames = << >> )
       => /\ listenPc' = "reset"
          /\ audio_queue' = audio_queue
          /\ files' = files /\ fileCount' = fileCount
  /\ (listenPc = "reset" /\ listenPc' # "reset" /\ temp_frames = << >>)
       => /\ last_recording_time' = current_time
          /\ temp_frames' = << >>
          /\ audio_queue' = audio_queue
          /\ files' = files /\ fileCount' = fileCount

C8_FailedWriteDropsInterval ==
  [][ (listenPc \in {"save_create", "save_write"} /\ faults' = faults + 1)
        => /\ audio_queue' = audio_queue
           /\ listenPc' = "reset" ]_vars

\* C9: a failed device read (or failed processing of the block) leaves
\* running unchanged, keeps the blocks already buffered, and is followed by
\* another iteration after the backoff; the loop ends only at its top with
\* running false.
C9_ReadErrorNonFatal ==
  [][ /\ (listenPc = "read" /\ listenPc' = "backoff")
           => /\ running' = running
              /\ Len(temp_frames') >= Len(temp_frames)
              /\ SubSeq(temp_frames', 1, Len(temp_frames)) = temp_frames
      /\ (listenPc = "backoff" /\ listenPc' # "backoff")
           => /\ listenPc' = "top"
              /\ temp_frames' = temp_frames
              /\ running' = running
      /\ (listenPc # "done" /\ listenPc' = "done")
           => (listenPc = "top" /\ ~running) ]_vars

\* C9 witness: the loop is in the backoff of a failed read (the stream is
\* open and the iteration was not at an interval boundary), still running,
\* with the block read before the failure still buffered.
C9_Witness ==
  /\ listenPc = "backoff" /\ running /\ stream = "active"
  /\ ~AtBoundary(current_time, last_recording_time)
  /\ temp_frames = << 1 >> /\ nextBlock = 2

\* the handles put so far, in the order of the puts
PutOrder == [i \in 1..Len(putLog) |-> putLog[i].handle]

\* C10: handles are put in the order in which their intervals completed and
\* the consumer receives them in that order.
C10_FifoOrder ==
  /\ dequeued \o audio_queue = PutOrder
  /\ \A i, j \in 1..Len(putLog) :
       i < j => putLog[i].flushTime < putLog[j].flushTime

\* C10 witness: the second handle was put while the first was still queued,
\* and both have been received.
C10_Witness ==
  /\ Len(dequeued) = 2
  /\ putLog[2].queueLen = 1

\* C11: speech is reported on a block exactly when it is the
\* speech_frames_threshold-th block of the current run of consecutive
\* above-threshold blocks; a below-threshold block resets the counter; a run
\* shorter than the threshold never reports and a longer one reports once.
C11_SpeechDebounce ==
  /\ consecutive_speech_frames = runLength
  /\ speechReported <=> (runLength = SpeechFramesThreshold)
  /\ runReports = (IF runLength >= SpeechFramesThreshold THEN 1 ELSE 0)

\* C11 witness: a run one block longer than the threshold, reported once,
\* and not on its last block.
C11_Witness ==
  /\ runLength = SpeechFramesThreshold + 1
  /\ runReports = 1
  /\ ~speechReported

\* C12: when calibration collected no sample, _calibrate_noise does not
\* raise, threshold and noise_floor keep their configured defaults,
\* is_calibrated is still set and the listening thread is still started.
C12_EmptyCalibration ==
  (noise_calibration_samples = << >>
     /\ calPc \notin {"idle", "begin", "loop", "compute"})
    => /\ calPc \in {"flag", "spawn", "done"}
       /\ threshold = InitialThreshold * Scale
       /\ noise_floor = 0
       /\ calPc \in {"spawn", "done"} => is_calibrated
       /\ calPc = "done" => listenPc # "idle"

\* C12 witness: calibration ended without a sample after a read raised, and
\* the listening thread runs with the default profile.
C12_Witness ==
  /\ noise_calibration_samples = << >>
  /\ calPc = "done" /\ is_calibrated
  /\ listenPc = "wait"
  /\ faults = 1 /\ stream = "active"
  /\ threshold = InitialThreshold * Scale

\* C13: after calibration over N >= 1 samples, noise_floor is mean + 2 *
\* stddev of the samples (to one fixed-point unit) and threshold is
\* max(initial threshold, noise_floor * 1.5); N identical samples of
\* amplitude a give noise_floor = a and threshold = max(initial, a * 1.5);
\* calibration never lowers the threshold.
C13_CalibrationResult ==
  (noise_calibration_samples # << >> /\ calPc \in {"flag", "spawn", "done"})
    => LET N == Len(noise_calibration_samples)
           S == SumSeq(noise_calibration_samples)
           V == N * SumSq(noise_calibration_samples) - S * S
           a == noise_calibration_samples[1]
           d == N * noise_floor - Scale * S
       IN  /\ d >= 0
           /\ d * d <= 4 * Scale * Scale * V
           /\ (d + N + 2) * (d + N + 2) > 4 * Scale * Scale * V
           /\ threshold = Max(InitialThreshold * Scale,
                              (noise_floor * 3) \div 2)
           /\ threshold >= InitialThreshold * Scale
           /\ (\A i \in 1..N : noise_calibration_samples[i] = a)
                => /\ noise_floor = a * Scale
                   /\ threshold = Max(InitialThreshold * Scale,
                                      (a * Scale * 3) \div 2)

\* C13 witness: calibration over two different samples (mean 5, stddev 3)
\* has raised the threshold to 1.5 * 11.
C13_Witness ==
  /\ calPc = "done"
  /\ noise_calibration_samples = << 2, 8 >>
  /\ noise_floor = 11 * Scale
  /\ 2 * threshold = 33 * Scale

\* C14: once is_calibrated is true, threshold and noise_floor are never
\* written again, whatever the listening loop, the flushes, the failures and
\* stop() do.
C14_ProfileImmutable ==
  [][ is_calibrated => /\ threshold' = threshold
                       /\ noise_floor' = noise_floor
                       /\ is_calibrated' ]_vars

\* C14 witness: with a calibrated, raised threshold the loop has flushed a
\* segment, met a failure, and stop() has returned.
C14_Witness ==
  /\ is_calibrated
  /\ threshold > InitialThreshold * Scale
  /\ noise_floor > 0
  /\ Len(putLog) >= 1 /\ faults = 1 /\ stopReturns >= 1

\* the pcs of an iteration that found the interval boundary reached
InFlush == {"save_create", "save_write", "save_put"}

\* C15: every iteration that reaches an interval boundary ends by clearing
\* the buffer and setting last_recording_time to the time that iteration
\* observed; last_recording_time never decreases and two consecutive flushes
\* are at least recording_interval apart.
C15_BoundaryResetsTimer ==
  /\ [][ /\ (listenPc \in InFlush /\ listenPc' \notin InFlush)
              => listenPc' = "reset"
         /\ (listenPc = "reset" /\ listenPc' # "reset")
              => /\ temp_frames' = << >>
                 /\ last_recording_time' = current_time
         /\ last_recording_time' >= last_recording_time
         /\ (listenPc = "reset" /\ last_recording_time' # last_recording_time)
              => last_recording_time' >= last_recording_time
                                           + RecordingInterval ]_vars
  /\ [](\A i, j \in 1..Len(putLog) :
          i < j => putLog[j].flushTime
                     >= putLog[i].flushTime + RecordingInterval)

\* C16: after stop() every worker thread (calibration, listening) sees the
\* cleared running flag at its next iteration and terminates, and the device
\* is then closed exactly once: when stop() has closed the stream, no worker
\* is still running.
C16_WorkersEndBeforeClose ==
  (startFailedAt = "none" /\ stopCalls >= 1 /\ stream = "closed")
    => /\ calPc = "done"
       /\ listenPc = "done"
       /\ closeCalls = 1

\* C18: with recording_interval = 2 s, 2.1 s after start_listening() was
\* called (the clock reads 2) exactly one segment handle is on audio_queue.
C18_OneSegmentAfterInterval ==
  ( /\ callerPc # "created" /\ startFailedAt = "none"
    /\ now - startedAt = RecordingInterval )
    => Len(audio_queue) = 1

\* C18 as amended: nothing is enqueued before calibration_period +
\* recording_interval have passed since start_listening() was called (so the
\* queue is empty 2.1 s after the call), and at most one handle is enqueued
\* before a second recording_interval has passed.
C18_FirstSegmentAfterCalibration ==
  /\ now - startedAt < CalibrationPeriod + RecordingInterval
       => (putLog = << >> /\ audio_queue = << >>)
  /\ now - startedAt < CalibrationPeriod + 2 * RecordingInterval
       => Len(putLog) <= 1
  /\ \A i \in 1..Len(putLog) :
       putLog[i].flushTime
         >= startedAt + CalibrationPeriod + i * RecordingInterval

\* C18 witness: the first handle is on the queue exactly calibration_period
\* + recording_interval after the call.
C18_Witness ==
  /\ startFailedAt = "none"
  /\ now - startedAt = CalibrationPeriod + RecordingInterval
  /\ Len(audio_queue) = 1
  /\ putLog[1].flushTime = now

\* C19: no worker thread calls stream.is_active() or stream.read() on the
\* stream after stop() has closed it.  The listening loop's call is its step
\* out of "read"; on a closed stream no such step is taken.  (An iteration of
\* the calibration loop on a closed stream changes no variable.)
C19_NoDeviceUseAfterClose ==
  [][ ~(stream = "closed" /\ listenPc = "read" /\ listenPc' # "read") ]_vars

\* calibration is still running when the modelled clock stops
HorizonReached == now = MaxTime /\ calPc \in {"begin", "loop"}

\* C20: after start_listening() has returned, is_calibrated eventually
\* becomes true, so the caller's wait for calibration ends in every
\* execution, also when the device could not be opened.
C20_ReadinessReached ==
  (callerPc = "waitcal") ~> (is_calibrated \/ HorizonReached)

\* C21 in a state: every queued handle names a closed file holding the whole
\* interval it was written from; a file is open only while _save_recording
\* writes it; every handle the consumer received was put, and its file was
\* unlinked by the consumer.
C21_Inv ==
  /\ \A i \in 1..Len(audio_queue) :
       /\ audio_queue[i] \in 1..fileCount
       /\ files[audio_queue[i]].state = "closed"
  /\ \A i \in 1..Len(putLog) :
       files[putLog[i].handle].content
         = SubSeq(deviceLog, putLog[i].first + 1, putLog[i].last)
  /\ \A h \in 1..fileCount :
       /\ files[h].state = "open"
            => (h = temp_file /\ listenPc = "save_write")
       /\ files[h].state = "deleted"
            => h \notin Range(audio_queue)
  /\ \A i \in 1..Len(dequeued) :
       /\ dequeued[i] \in Range(PutOrder)
       /\ files[dequeued[i]].state = "deleted"

\* C21 in a step: a put enqueues the handle of a file already closed; a
\* failed write deletes the file and enqueues nothing; the consumer takes
\* the handle of a closed file.
C21_Step ==
  /\ Len(audio_queue') > Len(audio_queue)
       => /\ files[temp_file].state = "closed"
          /\ files[temp_file].content = temp_frames
          /\ audio_queue' = Append(audio_queue, temp_file)
  /\ (listenPc = "save_write" /\ faults' = faults + 1)
       => /\ files'[temp_file].state = "deleted"
          /\ audio_queue' = audio_queue
          /\ temp_file \notin Range(PutOrder')
  /\ Len(audio_queue') < Len(audio_queue)
       => files[Head(audio_queue)].state = "closed"

\* C21: every handle on audio_queue names a segment file completely written
\* and closed before the handle was enqueued; when the write fails the
\* temporary file is deleted and its name is never enqueued; the consumer
\* never dequeues a handle to a partial or missing file.
C21_HandlesNameCompleteFiles == [](C21_Inv) /\ [][C21_Step]_vars

\* C21 witness: the write of the first segment failed and its file was
\* deleted; the second segment was written, closed and enqueued.
C21_Witness ==
  /\ fileCount = 2 /\ faults = 1
  /\ files[1].state = "deleted" /\ dequeued = << >>
  /\ audio_queue = << 2 >>
  /\ files[2].state = "closed"

\* the enqueued segments that hold block b
SegmentsOf(b) ==
  {i \in 1..Len(putLog) : b \in Range(files[putLog[i].handle].content)}

\* the interval just ended was enqueued: the last segment put is the buffer
IntervalSaved ==
  /\ putLog # << >>
  /\ files[putLog[Len(putLog)].handle].content = temp_frames

\* the write of the interval just ended failed: the file created last was
\* deleted without ever being enqueued
IntervalWriteFailed ==
  /\ fileCount >= 1
  /\ fileCount \notin Range(PutOrder)
  /\ files[fileCount].state = "deleted"

\* C22 in a state: no block is in two segments or twice in one; the buffer
\* holds exactly the blocks read since the interval began; a block of an
\* earlier interval is in no segment only if a write failed.
C22_Inv ==
  /\ \A b \in Range(deviceLog) : Cardinality(SegmentsOf(b)) <= 1
  /\ \A i \in 1..Len(putLog) :
       LET c == files[putLog[i].handle].content
       IN  /\ Range(c) \subseteq Range(deviceLog)
           /\ \A j, k \in 1..Len(c) : j # k => c[j] # c[k]
  /\ listenPc \notin {"idle", "wait", "done"} => temp_frames = IntervalBlocks
  /\ \A b \in 1..intervalStartIdx :
       SegmentsOf(b) = {}
         => \E h \in 1..fileCount :
              h \notin Range(PutOrder) /\ files[h].state = "deleted"

\* C22 in a step: the buffer loses blocks only all at once, either at the
\* reset after its segment was enqueued, or at the reset after its write
\* failed, or when the loop ends with running false (the unfinished interval
\* is not flushed); an enqueued segment keeps its blocks.
C22_Step ==
  /\ Len(temp_frames') < Len(temp_frames)
       => /\ temp_frames' = << >>
          /\ \/ listenPc = "top" /\ listenPc' = "done" /\ ~running
             \/ listenPc = "reset" /\ IntervalSaved
             \/ listenPc = "reset" /\ IntervalWriteFailed
  /\ \A i \in 1..Len(putLog) :
       files'[putLog[i].handle].content = files[putLog[i].handle].content
  /\ SubSeq(deviceLog', 1, Len(deviceLog)) = deviceLog

\* C22: block conservation: every block read by the listening loop ends up
\* in at most one enqueued segment, and a block is missing from all segments
\* only if its interval's write failed or it was still in the unfinished
\* interval when the loop stopped.
C22_BlockConservation == [](C22_Inv) /\ [][C22_Step]_vars

\* C22 witness: the loop has ended; the first interval's write failed and
\* its block is in no segment, the second interval was enqueued, and a block
\* read after it was left in the unfinished interval.
C22_Witness ==
  /\ listenPc = "done"
  /\ fileCount = 2 /\ files[1].state = "deleted"
  /\ PutOrder = << 2 >>
  /\ SegmentsOf(1) = {}
  /\ putLog[1].last < Len(deviceLog)

\* C23 in a state: the two threads are never both at their stream.read, and
\* the listening thread does not exist before _calibrate_noise has left its
\* read loop and started it.
C23_Inv ==
  /\ ~(calPc = "loop" /\ listenPc = "read")
  /\ calPc # "done" => listenPc = "idle"

\* C23 in a step: the listening thread is created by the last step of
\* _calibrate_noise and by no other step, so it is created once; a sample is
\* read by the calibration loop only while no listening thread exists, and a
\* block by the listening loop only after calibration has finished.
C23_Step ==
  /\ (listenPc = "idle" /\ listenPc' # "idle")
       => (calPc = "spawn" /\ calPc' = "done" /\ listenPc' = "wait")
  /\ calPc = "done" => calPc' = "done"
  /\ listenPc # "idle" => listenPc' # "idle"
  /\ noise_calibration_samples' # noise_calibration_samples
       => (calPc = "loop" /\ listenPc = "idle")
  /\ deviceLog' # deviceLog
       => (listenPc = "read" /\ calPc = "done")

\* C23: the device stream has at most one reader at any time: the
\* calibration thread and the listening thread never execute stream.read
\* concurrently, the listening thread is created only after the calibration
\* read loop has ended, and at most one listening thread exists per
\* start_listening() call.
C23_SingleReader == [](C23_Inv) /\ [][C23_Step]_vars

\* C23 witness: the listening loop is at its read on the open stream after
\* the calibration loop read two samples and a first block was read.
C23_Witness ==
  /\ listenPc = "read" /\ stream = "active" /\ running
  /\ Len(noise_calibration_samples) = 2
  /\ Len(deviceLog) = 1
====
